---- MODULE Spec2Model ----
(***************************************************************************)
(* A model of the dndme shell (shell.py): the session state GameState, the *)
(* command handlers Load, Show, Start, NextTurn, Damage, Heal, Quit and    *)
(* the main loop that dispatches them.  TurnManager (initiative.py) is not *)
(* part of the sources at hand and is modelled from its specification.     *)
(***************************************************************************)
EXTENDS Integers, Sequences, FiniteSets, TLC

VARIABLES
    characters,  \* GameState.characters: name-keyed dict, in insertion order
    monsters,    \* GameState.monsters: name-keyed dict, in insertion order
    encounter,   \* GameState.encounter: None (<<>>) or <<encounter>>
    tm,          \* GameState.tm: None (<<>>) or <<turn manager>>
    pc,          \* where the control thread waits for input
    out,         \* what the last step printed
    status,      \* "running", "exited", "crashed" or "hung"
    nextId,      \* identity of the next object allocated
    advances,    \* history: the advances since the last start command
    quota        \* what the operator may still enter in this session

vars == <<characters, monsters, encounter, tm, pc, out, status, nextId, advances, quota>>

-----------------------------------------------------------------------------
(* Bounds of the model *)

MaxRoll == 3        \* dice rolls are drawn from 1..MaxRoll
MaxRound == 2       \* turns are advanced while the round is at most MaxRound
MaxLoads == 2       \* encounter loads of a session
MaxStarts == 2      \* start commands of a session
MaxHpCmds == 2      \* damage and heal commands of a session

\* The sessions explored: one of combat (few loads, no damage), one of the
\* registries (no combat) and a short one in which every command may occur.
Sessions ==
    { [loads |-> 1, partyLoads |-> 1, starts |-> MaxStarts, hpCmds |-> 0,
       rounds |-> MaxRound, dice |-> MaxRoll, others |-> 0],
      [loads |-> MaxLoads, partyLoads |-> 1, starts |-> 0, hpCmds |-> MaxHpCmds,
       rounds |-> 0, dice |-> MaxRoll, others |-> 0],
      [loads |-> 1, partyLoads |-> 1, starts |-> 1, hpCmds |-> 1,
       rounds |-> 1, dice |-> 1, others |-> 1] }

-----------------------------------------------------------------------------
(* Characters and strings.  A string is a sequence of one-character        *)
(* strings, so that str.isdigit, int(), name[0].islower() and the          *)
(* concatenation name+str(i+1) are computed as Python computes them.       *)

Digits == <<"0", "1", "2", "3", "4", "5", "6", "7", "8", "9">>

IsDigitChar(c) == \E d \in 1..10 : Digits[d] = c

DigitVal(c) == (CHOOSE d \in 1..10 : Digits[d] = c) - 1

LowerChars == {"a", "b", "g", "h", "i", "l", "n", "o", "r", "s", "t", "x", "z"}

\* str.islower() of one character
IsLowerChar(c) == c \in LowerChars

\* str.isdigit(): non-empty and made of digits only
IsDigitStr(s) == Len(s) > 0 /\ \A k \in 1..Len(s) : IsDigitChar(s[k])

RECURSIVE DecVal(_)
\* the value of a string of decimal digits
DecVal(s) ==
    IF Len(s) = 0 THEN 0
    ELSE 10 * DecVal(SubSeq(s, 1, Len(s) - 1)) + DigitVal(s[Len(s)])

\* int(s) succeeds: an optional sign followed by at least one digit
IsIntStr(s) ==
    \/ IsDigitStr(s)
    \/ Len(s) > 1 /\ s[1] \in {"-", "+"} /\ IsDigitStr(Tail(s))

\* int(s) for a string on which it succeeds
IntOf(s) ==
    IF s[1] = "-" THEN 0 - DecVal(Tail(s))
    ELSE IF s[1] = "+" THEN DecVal(Tail(s))
    ELSE DecVal(s)

RECURSIVE Str(_)
\* str(n) for n >= 0
Str(n) ==
    IF n < 10 THEN <<Digits[n + 1]>>
    ELSE Str(n \div 10) \o <<Digits[(n % 10) + 1]>>

-----------------------------------------------------------------------------
(* Optional values: None is <<>>, an object x is <<x>>. *)

None == <<>>

Some(x) == <<x>>

-----------------------------------------------------------------------------
(* Name-keyed dicts in insertion order: sequences of records with a name. *)

Keys(d) == {d[k].name : k \in 1..Len(d)}

HasKey(d, name) == \E k \in 1..Len(d) : d[k].name = name

IndexOf(d, name) == CHOOSE k \in 1..Len(d) : d[k].name = name

\* dict.get(name): None or the object
DictGet(d, name) == IF HasKey(d, name) THEN Some(d[IndexOf(d, name)]) ELSE None

\* an insertion that keeps the object a key already has
DictPutKeepFirst(d, obj) == IF HasKey(d, obj.name) THEN d ELSE Append(d, obj)

\* d[obj.name] = obj: an existing key keeps its place, a new key goes last
DictPut(d, obj) ==
    IF HasKey(d, obj.name)
    THEN [d EXCEPT ![IndexOf(d, obj.name)] = obj]
    ELSE Append(d, obj)

\* the object of a dict.get result that is not None
Val(o) == o[1]

-----------------------------------------------------------------------------
(* The files the session reads: monsters/*.toml, encounters/*.toml and     *)
(* party.toml, in the order glob and the toml tables give them.            *)

Goblin == <<"g", "o", "b", "l", "i", "n">>

Orc == <<"O", "r", "c">>

Ghost == <<"g", "h", "o", "s", "t">>

Ann == <<"A", "n", "n">>

Zed == <<"z", "e", "d">>

\* monsters/*.toml: a name and the intrinsic hit points (_max_hp)
MonsterFiles ==
    << [name |-> Goblin, base_max_hp |-> 7],
       [name |-> Orc, base_max_hp |-> 15] >>

\* encounters/*.toml: the groups in declared order; max_hp is None when the
\* group has no such key
EncounterFiles ==
    << [name |-> "ambush",
        groups |-> << [monster |-> Goblin, count |-> 2, max_hp |-> Some(<<5, 9>>)],
                      [monster |-> Orc, count |-> 2, max_hp |-> Some(<<12, 30>>)] >>],
       [name |-> "cave",
        groups |-> << [monster |-> Ghost, count |-> 1, max_hp |-> None],
                      [monster |-> Goblin, count |-> 2, max_hp |-> None],
                      [monster |-> Goblin, count |-> 1, max_hp |-> Some(<<4, 4>>)] >>] >>

\* party.toml: the party members in table order
PartyFile ==
    << [name |-> Ann, max_hp |-> 10, cur_hp |-> 5],
       [name |-> Orc, max_hp |-> 20, cur_hp |-> 20] >>

-----------------------------------------------------------------------------
(* Load.load_encounter, lines 151-172: the instantiation of the groups. *)

\* a lookup that falls back to the first monster file
FindTemplateOrFirst(group) ==
    IF \E k \in 1..Len(MonsterFiles) : MonsterFiles[k].name = group.monster
    THEN CHOOSE k \in 1..Len(MonsterFiles) : MonsterFiles[k].name = group.monster
    ELSE 1

\* lines 155-157: the first monster file whose name is the group's monster,
\* 0 when there is none
FindTemplate(group) ==
    IF \E k \in 1..Len(MonsterFiles) : MonsterFiles[k].name = group.monster
    THEN CHOOSE k \in 1..Len(MonsterFiles) :
            /\ MonsterFiles[k].name = group.monster
            /\ \A j \in 1..(k - 1) : MonsterFiles[j].name # group.monster
    ELSE 0

\* lines 158-159: len(monsters), the number of Monster objects of the group
GroupSize(group) == IF FindTemplate(group) = 0 THEN 0 ELSE group.count

\* hit points taken from max_hp whenever it has an i-th element
InstanceHpAnyLength(group, i) ==
    IF group.max_hp # None /\ i <= Len(Val(group.max_hp))
    THEN Val(group.max_hp)[i]
    ELSE MonsterFiles[FindTemplate(group)].base_max_hp

\* lines 163-168: the hit points of the i-th instance (i counted from 1)
InstanceHp(group, i) ==
    IF group.max_hp # None /\ Len(Val(group.max_hp)) = GroupSize(group)
    THEN Val(group.max_hp)[i]
    ELSE MonsterFiles[FindTemplate(group)].base_max_hp

\* names numbered from 0
InstanceNameFromZero(group, i) ==
    LET name == MonsterFiles[FindTemplate(group)].name
    IN  IF IsLowerChar(name[1]) THEN name \o Str(i - 1) ELSE name

\* lines 170-171: the name of the i-th instance (i counted from 1)
InstanceName(group, i) ==
    LET name == MonsterFiles[FindTemplate(group)].name
    IN  IF IsLowerChar(name[1]) THEN name \o Str(i) ELSE name

\* lines 159-171: the i-th Monster of the group, the id-th object allocated
Instance(group, i, id) ==
    [ name |-> InstanceName(group, i),
      base_max_hp |-> MonsterFiles[FindTemplate(group)].base_max_hp,
      max_hp |-> InstanceHp(group, i),
      cur_hp |-> InstanceHp(group, i),
      id |-> id ]

RECURSIVE PutInstances(_, _, _, _)
\* lines 162-172: registers instances i..len(monsters) of the group
PutInstances(reg, group, i, id0) ==
    IF i > GroupSize(group) THEN reg
    ELSE PutInstances(DictPut(reg, Instance(group, i, id0 + i - 1)), group, i + 1, id0)

RECURSIVE LoadGroups(_, _, _)
\* lines 151-172: the loop over encounter.groups.values()
LoadGroups(reg, groups, id0) ==
    IF Len(groups) = 0 THEN reg
    ELSE LoadGroups(PutInstances(reg, Head(groups), 1, id0), Tail(groups),
                    id0 + GroupSize(Head(groups)))

RECURSIVE Allocated(_)
\* the number of Monster objects the groups create
Allocated(groups) ==
    IF Len(groups) = 0 THEN 0
    ELSE GroupSize(Head(groups)) + Allocated(Tail(groups))

-----------------------------------------------------------------------------
(* Roll values.  Start passes to add_combatant either an int (a dice roll  *)
(* or int(reply)) or the reply itself, a str.                              *)

IntRoll(n) == [isint |-> TRUE, n |-> n, s |-> <<>>]

StrRoll(s) == [isint |-> FALSE, n |-> 0, s |-> s]

\* the characters of the replies, in code point order
CodeOrder == <<"+", "-", "0", "1", "2", "3", "4", "5", "6", "7", "8", "9", "x", "z">>

Code(c) == CHOOSE k \in 1..Len(CodeOrder) : CodeOrder[k] = c

RECURSIVE StrLess(_, _)
\* s < t for two str, as Python compares them
StrLess(s, t) ==
    IF Len(t) = 0 THEN FALSE
    ELSE IF Len(s) = 0 THEN TRUE
    ELSE IF s[1] # t[1] THEN Code(s[1]) < Code(t[1])
    ELSE StrLess(Tail(s), Tail(t))

\* a < b for two rolls of the same type
RollLess(a, b) == IF a.isint THEN a.n < b.n ELSE StrLess(a.s, b.s)

\* a combatant as the turn manager holds it: a reference to the object
Ref(kind, obj) == [kind |-> kind, name |-> obj.name, id |-> obj.id]

-----------------------------------------------------------------------------
(* TurnManager: add_combatant, turn_order, generate_turns. *)

\* TurnManager(): no combatant, no current turn, no turn sequence
NewTurnManager == [initiative |-> <<>>, cur_turn |-> None, turns |-> None]

\* add_combatant: into the group of the roll, created when absent
AddCombatant(t, ref, roll) ==
    LET init == t.initiative
    IN  IF \E k \in 1..Len(init) : init[k].roll = roll
        THEN LET k == CHOOSE k \in 1..Len(init) : init[k].roll = roll
             IN  [t EXCEPT !.initiative[k].group = Append(@, ref)]
        ELSE [t EXCEPT !.initiative = Append(@, [roll |-> roll, group |-> <<ref>>])]

\* the rolls can be compared with one another: int with str raises TypeError
Sortable(init) ==
    \A j, k \in 1..Len(init) : init[j].roll.isint = init[k].roll.isint

RECURSIVE SortDesc(_)
\* the entries sorted by roll, highest first
SortDesc(init) ==
    IF Len(init) = 0 THEN <<>>
    ELSE LET m == CHOOSE k \in 1..Len(init) :
                    \A j \in 1..Len(init) : ~RollLess(init[k].roll, init[j].roll)
             rest == [j \in 1..(Len(init) - 1) |-> IF j < m THEN init[j] ELSE init[j + 1]]
         IN  <<init[m]>> \o SortDesc(rest)

\* turn_order: the (roll, combatants) entries in descending roll order
TurnOrder(t) == SortDesc(t.initiative)

\* generate_turns(): the sequence before its first element
GenerateTurns == [round |-> 1, entry |-> 0, member |-> 0]

\* the cursor of the sequence after one more element
AdvanceCursor(order, c) ==
    IF c.entry = 0 THEN [c EXCEPT !.entry = 1, !.member = 1]
    ELSE IF c.member < Len(order[c.entry].group) THEN [c EXCEPT !.member = @ + 1]
    ELSE IF c.entry < Len(order) THEN [c EXCEPT !.entry = @ + 1, !.member = 1]
    ELSE [round |-> c.round + 1, entry |-> 1, member |-> 1]

\* the (round, roll, combatant) triple at a cursor
TurnAt(order, c) ==
    [round |-> c.round, roll |-> order[c.entry].roll,
     combatant |-> order[c.entry].group[c.member]]

-----------------------------------------------------------------------------
(* What the operator may type. *)

\* replies to "Load encounter: "
Picks == {Str(k) : k \in 0..(Len(EncounterFiles) + 1)} \cup {<<"x">>}

\* replies to "Initiative for ...: "
Replies == {<<>>, <<"3">>, <<"x">>}

\* names given to damage and heal
TargetNames == {Ann, Orc, Goblin \o <<"1">>, Zed}

\* amounts given to damage and heal
Amounts == {<<"2", "0">>, <<"-", "3">>, <<"x">>}

\* the arguments of a damage or heal command
HpArgs ==
    {<<>>} \cup {<<n>> : n \in TargetNames}
           \cup {<<n, a>> : n \in TargetNames, a \in Amounts}

\* the integers the dice roll in a session
Rolls(q) == 1..q.dice

-----------------------------------------------------------------------------
(* The session. *)

AtMain == [at |-> "main", i |-> 0]

\* GameState(), and main_loop waiting at its prompt
Init ==
    /\ characters = <<>>
    /\ monsters = <<>>
    /\ encounter = None
    /\ tm = None
    /\ pc = AtMain
    /\ out = ""
    /\ status = "running"
    /\ nextId = 1
    /\ advances = 0
    /\ quota \in Sessions

\* main_loop reads a command
Ready == status = "running" /\ pc.at = "main"

\* an exception other than EOFError and KeyboardInterrupt leaves main_loop
Crash(what) ==
    /\ status' = "crashed"
    /\ out' = what
    /\ pc' = AtMain

\* Load.do_command without a known argument
LoadNothing ==
    /\ Ready
    /\ quota.others > 0
    /\ \E arg \in {"", "other"} :
          out' = IF arg = "" THEN "Load what?" ELSE ""
    /\ quota' = [quota EXCEPT !.others = @ - 1]
    /\ UNCHANGED <<characters, monsters, encounter, tm, pc, status, nextId, advances>>

\* the Character objects of party.toml, the first of them the id-th object
PartyDict(id0) ==
    [k \in 1..Len(PartyFile) |->
        [name |-> PartyFile[k].name, max_hp |-> PartyFile[k].max_hp,
         cur_hp |-> PartyFile[k].cur_hp, id |-> id0 + k - 1]]

\* a party load that enters the first new character into a running combat
LoadPartyJoinsTurns ==
    /\ Ready
    /\ quota.partyLoads > 0
    /\ characters' = PartyDict(nextId)
    /\ nextId' = nextId + Len(PartyFile)
    /\ out' = "OK; loaded characters"
    /\ quota' = [quota EXCEPT !.partyLoads = @ - 1]
    /\ tm' = IF tm = None THEN tm
             ELSE Some(AddCombatant(Val(tm), Ref("character", PartyDict(nextId)[1]), IntRoll(1)))
    /\ UNCHANGED <<monsters, encounter, pc, status, advances>>

\* Load.load_party
LoadParty ==
    /\ Ready
    /\ quota.partyLoads > 0
    /\ characters' = PartyDict(nextId)
    /\ nextId' = nextId + Len(PartyFile)
    /\ out' = "OK; loaded characters"
    /\ quota' = [quota EXCEPT !.partyLoads = @ - 1]
    /\ UNCHANGED <<monsters, encounter, tm, pc, status, advances>>

\* Load.load_encounter up to its prompt
LoadEncounter ==
    /\ Ready
    /\ quota.loads > 0
    /\ quota' = [quota EXCEPT !.loads = @ - 1]
    /\ IF Len(EncounterFiles) = 0
       THEN /\ out' = "No available encounters found."
            /\ UNCHANGED pc
       ELSE /\ out' = "Load encounter: "
            /\ pc' = [at |-> "load_pick", i |-> 0]
    /\ UNCHANGED <<characters, monsters, encounter, tm, status, nextId, advances>>

\* lines 141-147: the reply is refused
PickRefused(pick) ==
    \/ ~IsDigitStr(pick)
    \/ IntOf(pick) - 1 < 0
    \/ IntOf(pick) - 1 > Len(EncounterFiles)

\* an instantiation that begins with an empty registry
InstantiatedAlone(e) == LoadGroups(<<>>, e.groups, nextId)

\* lines 151-172: the monster registry after the encounter's groups
Instantiated(e) == LoadGroups(monsters, e.groups, nextId)

\* a load that also discards the turn manager
LoadDropsTurns == characters' = characters /\ tm' = None

\* lines 129-172 assign game.encounter and game.monsters and nothing else
LoadUntouched == UNCHANGED <<characters, tm>>

\* Load.load_encounter from the reply on
LoadPick(pick) ==
    /\ status = "running"
    /\ pc.at = "load_pick"
    /\ IF PickRefused(pick)
       THEN /\ out' = "Invalid encounter."
            /\ pc' = AtMain
            /\ UNCHANGED <<monsters, encounter, status, nextId>>
       ELSE IF IntOf(pick) - 1 >= Len(EncounterFiles)
       THEN /\ Crash("IndexError")
            /\ UNCHANGED <<monsters, encounter, nextId>>
       ELSE LET e == EncounterFiles[IntOf(pick)]
            IN  /\ encounter' = Some(e)
                /\ monsters' = Instantiated(e)
                /\ nextId' = nextId + Allocated(e.groups)
                /\ out' = "Loaded encounter"
                /\ pc' = AtMain
                /\ UNCHANGED status
    /\ LoadUntouched
    /\ UNCHANGED <<advances, quota>>

\* EOFError or KeyboardInterrupt at a prompt of a handler: main_loop passes
Interrupt ==
    /\ status = "running"
    /\ pc.at # "main"
    /\ pc' = AtMain
    /\ out' = ""
    /\ UNCHANGED <<characters, monsters, encounter, tm, status, nextId, advances, quota>>

RECURSIVE AddMonstersButLast(_, _, _)
\* a loop that stops one monster early
AddMonstersButLast(t, reg, rs) ==
    IF Len(reg) <= 1 THEN t
    ELSE AddMonstersButLast(AddCombatant(t, Ref("monster", Head(reg)), IntRoll(Head(rs))),
                            Tail(reg), Tail(rs))

RECURSIVE AddMonstersReversed(_, _, _)
\* a loop that takes the monsters last to first
AddMonstersReversed(t, reg, rs) ==
    IF Len(reg) = 0 THEN t
    ELSE AddMonstersReversed(
            AddCombatant(t, Ref("monster", reg[Len(reg)]), IntRoll(rs[Len(reg)])),
            SubSeq(reg, 1, Len(reg) - 1), SubSeq(rs, 1, Len(reg) - 1))

RECURSIVE AddMonsters(_, _, _)
\* lines 224-226: every monster of the registry with its dice roll
AddMonsters(t, reg, rs) ==
    IF Len(reg) = 0 THEN t
    ELSE AddMonsters(AddCombatant(t, Ref("monster", Head(reg)), IntRoll(Head(rs))),
                     Tail(reg), Tail(rs))

\* lines 236-241: prints the turn order and creates the turn sequence
FinishStart(t) ==
    IF Sortable(t.initiative)
    THEN /\ tm' = Some([t EXCEPT !.turns = Some(GenerateTurns)])
         /\ out' = "Beginning combat with: "
         /\ pc' = AtMain
         /\ UNCHANGED status
    ELSE /\ tm' = Some(t)
         /\ Crash("TypeError")

\* a start that keeps the turn manager the session has
StartManagerReused == IF tm = None THEN NewTurnManager ELSE Val(tm)

\* line 222: self.game.tm = TurnManager()
StartManager == NewTurnManager

\* Start.do_command up to the first prompt
Start ==
    /\ Ready
    /\ quota.starts > 0
    /\ quota' = [quota EXCEPT !.starts = @ - 1]
    /\ advances' = 0
    /\ \E rs \in [1..Len(monsters) -> Rolls(quota)] :
          LET t == AddMonsters(StartManager, monsters, rs)
          IN  IF Len(characters) = 0
              THEN FinishStart(t)
              ELSE /\ tm' = Some(t)
                   /\ out' = "Initiative for "
                   /\ pc' = [at |-> "start_roll", i |-> 1]
                   /\ UNCHANGED status
    /\ UNCHANGED <<characters, monsters, encounter, nextId>>

\* lines 229-233: the roll of a reply, d being what the dice give
RollOfReply(reply, d) ==
    IF Len(reply) = 0 THEN IntRoll(d)
    ELSE IF IsDigitStr(reply) THEN IntRoll(IntOf(reply))
    ELSE StrRoll(reply)

\* Start.do_command from a reply on
StartReply(reply) ==
    /\ status = "running"
    /\ pc.at = "start_roll"
    /\ \E d \in Rolls(quota) :
          LET t == AddCombatant(Val(tm), Ref("character", characters[pc.i]),
                                RollOfReply(reply, d))
          IN  IF pc.i < Len(characters)
              THEN /\ tm' = Some(t)
                   /\ out' = "Initiative for "
                   /\ pc' = [pc EXCEPT !.i = @ + 1]
                   /\ UNCHANGED status
              ELSE FinishStart(t)
    /\ UNCHANGED <<characters, monsters, encounter, nextId, advances, quota>>

\* an advance that leaves cur_turn as it was
TurnTakenStale(t) ==
    [t EXCEPT !.turns = Some(AdvanceCursor(TurnOrder(t), Val(t.turns)))]

\* an advance that records the round's first turn as the current one
TurnTakenFirst(t) ==
    LET c == AdvanceCursor(TurnOrder(t), Val(t.turns))
    IN  [t EXCEPT !.turns = Some(c),
                  !.cur_turn = Some(TurnAt(TurnOrder(t), [c EXCEPT !.entry = 1, !.member = 1]))]

\* lines 252-253: turn = next(tm.turns); tm.cur_turn = turn
TurnTaken(t) ==
    LET c == AdvanceCursor(TurnOrder(t), Val(t.turns))
    IN  [t EXCEPT !.turns = Some(c), !.cur_turn = Some(TurnAt(TurnOrder(t), c))]

\* NextTurn.do_command
NextTurn ==
    /\ Ready
    /\ IF tm = None
       THEN /\ out' = "Combat hasn't started yet."
            /\ UNCHANGED <<tm, pc, status, advances>>
       ELSE IF Val(tm).turns = None
       THEN /\ Crash("TypeError")
            /\ UNCHANGED <<tm, advances>>
       ELSE IF Len(TurnOrder(Val(tm))) = 0
       THEN /\ \E s \in {"crashed", "hung"} : status' = s
            /\ out' = ""
            /\ UNCHANGED <<tm, pc, advances>>
       ELSE /\ Val(TurnTaken(Val(tm)).turns).round <= quota.rounds
            /\ tm' = Some(TurnTaken(Val(tm)))
            /\ out' = "Round: Initiative: Name: "
            /\ advances' = advances + 1
            /\ UNCHANGED <<pc, status>>
    /\ UNCHANGED <<characters, monsters, encounter, nextId, quota>>

\* lines 265-266 and 282-283: characters.get(name) or monsters.get(name)
FindTarget(name) ==
    IF DictGet(characters, name) # None THEN DictGet(characters, name)
    ELSE DictGet(monsters, name)

\* an assignment that looks the name up among the monsters first
SetMonsterFirstHp(name, hp) ==
    IF HasKey(monsters, name)
    THEN /\ monsters' = [monsters EXCEPT ![IndexOf(monsters, name)].cur_hp = hp]
         /\ UNCHANGED characters
    ELSE /\ characters' = [characters EXCEPT ![IndexOf(characters, name)].cur_hp = hp]
         /\ UNCHANGED monsters

\* target.cur_hp = hp, for the target that FindTarget(name) gives
SetTargetHp(name, hp) ==
    IF HasKey(characters, name)
    THEN /\ characters' = [characters EXCEPT ![IndexOf(characters, name)].cur_hp = hp]
         /\ UNCHANGED monsters
    ELSE /\ monsters' = [monsters EXCEPT ![IndexOf(monsters, name)].cur_hp = hp]
         /\ UNCHANGED characters

\* a damage that stops at 0 hit points
DamageClamped(args) ==
    /\ Ready
    /\ quota.hpCmds > 0
    /\ quota' = [quota EXCEPT !.hpCmds = @ - 1]
    /\ IF Len(args) < 2
       THEN /\ Crash("IndexError")
            /\ UNCHANGED <<characters, monsters>>
       ELSE IF ~IsIntStr(args[2])
       THEN /\ Crash("ValueError")
            /\ UNCHANGED <<characters, monsters>>
       ELSE IF FindTarget(args[1]) = None
       THEN /\ out' = "Invalid target: "
            /\ UNCHANGED <<characters, monsters, pc, status>>
       ELSE /\ LET hp == Val(FindTarget(args[1])).cur_hp - IntOf(args[2])
               IN  SetTargetHp(args[1], IF hp < 0 THEN 0 ELSE hp)
            /\ out' = ""
            /\ UNCHANGED <<pc, status>>
    /\ UNCHANGED <<encounter, tm, nextId, advances>>

\* Damage.do_command
Damage(args) ==
    /\ Ready
    /\ quota.hpCmds > 0
    /\ quota' = [quota EXCEPT !.hpCmds = @ - 1]
    /\ IF Len(args) < 2
       THEN /\ Crash("IndexError")
            /\ UNCHANGED <<characters, monsters>>
       ELSE IF ~IsIntStr(args[2])
       THEN /\ Crash("ValueError")
            /\ UNCHANGED <<characters, monsters>>
       ELSE IF FindTarget(args[1]) = None
       THEN /\ out' = "Invalid target: "
            /\ UNCHANGED <<characters, monsters, pc, status>>
       ELSE /\ SetTargetHp(args[1], Val(FindTarget(args[1])).cur_hp - IntOf(args[2]))
            /\ out' = ""
            /\ UNCHANGED <<pc, status>>
    /\ UNCHANGED <<encounter, tm, nextId, advances>>

\* a heal that goes on after it has reported an invalid target
HealNoReturn(args) ==
    /\ Ready
    /\ quota.hpCmds > 0
    /\ quota' = [quota EXCEPT !.hpCmds = @ - 1]
    /\ IF Len(args) < 2
       THEN /\ Crash("IndexError")
            /\ UNCHANGED <<characters, monsters>>
       ELSE IF ~IsIntStr(args[2])
       THEN /\ Crash("ValueError")
            /\ UNCHANGED <<characters, monsters>>
       ELSE IF FindTarget(args[1]) = None
       THEN /\ Crash("AttributeError")
            /\ UNCHANGED <<characters, monsters>>
       ELSE /\ SetTargetHp(args[1], Val(FindTarget(args[1])).cur_hp + IntOf(args[2]))
            /\ out' = ""
            /\ UNCHANGED <<pc, status>>
    /\ UNCHANGED <<encounter, tm, nextId, advances>>

\* Heal.do_command
Heal(args) ==
    /\ Ready
    /\ quota.hpCmds > 0
    /\ quota' = [quota EXCEPT !.hpCmds = @ - 1]
    /\ IF Len(args) < 2
       THEN /\ Crash("IndexError")
            /\ UNCHANGED <<characters, monsters>>
       ELSE IF ~IsIntStr(args[2])
       THEN /\ Crash("ValueError")
            /\ UNCHANGED <<characters, monsters>>
       ELSE IF FindTarget(args[1]) = None
       THEN /\ out' = "Invalid target: "
            /\ UNCHANGED <<characters, monsters, pc, status>>
       ELSE /\ SetTargetHp(args[1], Val(FindTarget(args[1])).cur_hp + IntOf(args[2]))
            /\ out' = ""
            /\ UNCHANGED <<pc, status>>
    /\ UNCHANGED <<encounter, tm, nextId, advances>>

\* Show.show_turn
ShowTurn ==
    IF tm = None THEN "No turn in progress."
    ELSE IF Val(tm).cur_turn = None THEN "No turn in progress."
    ELSE "Round: Initiative: Name: "

\* Show.do_command
Show ==
    /\ Ready
    /\ quota.others > 0
    /\ \E arg \in {"", "party", "monsters", "turn"} :
          out' = IF arg = "" THEN "Show what?"
                 ELSE IF arg = "party" THEN "party"
                 ELSE IF arg = "monsters" THEN "monsters"
                 ELSE ShowTurn
    /\ quota' = [quota EXCEPT !.others = @ - 1]
    /\ UNCHANGED <<characters, monsters, encounter, tm, pc, status, nextId, advances>>

\* Help.do_command and ListCommands.do_command
Help ==
    /\ Ready
    /\ quota.others > 0
    /\ out' = "Available commands:"
    /\ quota' = [quota EXCEPT !.others = @ - 1]
    /\ UNCHANGED <<characters, monsters, encounter, tm, pc, status, nextId, advances>>

\* main_loop, lines 310-313: no handler has the keyword
UnknownCommand ==
    /\ Ready
    /\ quota.others > 0
    /\ out' = "Unknown command."
    /\ quota' = [quota EXCEPT !.others = @ - 1]
    /\ UNCHANGED <<characters, monsters, encounter, tm, pc, status, nextId, advances>>

\* Quit.do_command: SystemExit leaves main_loop
Quit ==
    /\ Ready
    /\ quota.others > 0
    /\ quota' = [quota EXCEPT !.others = @ - 1]
    /\ out' = "Goodbye!"
    /\ status' = "exited"
    /\ UNCHANGED <<characters, monsters, encounter, tm, pc, nextId, advances>>

Next ==
    \/ LoadNothing
    \/ LoadParty
    \/ LoadEncounter
    \/ \E pick \in Picks : LoadPick(pick)
    \/ Interrupt
    \/ Start
    \/ \E reply \in Replies : StartReply(reply)
    \/ NextTurn
    \/ \E args \in HpArgs : Damage(args)
    \/ \E args \in HpArgs : Heal(args)
    \/ Show
    \/ Help
    \/ UnknownCommand
    \/ Quit

Spec == Init /\ [][Next]_vars

-----------------------------------------------------------------------------
(* Notions the properties below are stated with. *)

\* the start command has just completed
Started == status = "running" /\ pc.at = "main" /\ out = "Beginning combat with: "

\* the turn order of the session's turn manager
Order == TurnOrder(Val(tm))

RECURSIVE Flat(_)
\* the combatants of a turn order, entry after entry
Flat(order) == IF Len(order) = 0 THEN <<>> ELSE Head(order).group \o Flat(Tail(order))

\* the combatants of the two registries in the order Start adds them
Added ==
    [k \in 1..(Len(monsters) + Len(characters)) |->
        IF k <= Len(monsters) THEN Ref("monster", monsters[k])
        ELSE Ref("character", characters[k - Len(monsters)])]

\* how often x occurs in the sequence q
Count(q, x) == Cardinality({k \in 1..Len(q) : q[k] = x})

\* the place of x in the sequence q, in which it occurs
Place(q, x) == CHOOSE k \in 1..Len(q) : q[k] = x

\* C1: after a start command, the turn order's rolls strictly decrease from
\* one entry to the next, and every combatant of the two registries is in
\* exactly one entry, exactly once, the order holding nothing else.
C1_TurnOrderDescendingAndComplete ==
    Started =>
        /\ \A k \in 1..(Len(Order) - 1) : RollLess(Order[k + 1].roll, Order[k].roll)
        /\ \A k \in 1..Len(Added) : Count(Flat(Order), Added[k]) = 1
        /\ Len(Flat(Order)) = Len(Added)

\* a start over five combatants, three rolls and a tie
C1_Witness ==
    /\ Started
    /\ Len(Order) >= 3
    /\ Len(Flat(Order)) >= 5
    /\ \E k \in 1..Len(Order) : Len(Order[k].group) >= 2

\* C2: the k-th advance after a start yields round ceil(k/n) and the
\* ((k-1) mod n)+1-th combatant of the flattened turn order with its roll, n
\* being the number of combatants.
C2_AdvanceCycles ==
    (tm # None /\ advances >= 1) =>
        LET n == Len(Flat(Order))
            i == ((advances - 1) % n) + 1
            cur == Val(tm).cur_turn
        IN  /\ cur # None
            /\ Val(cur).round = ((advances - 1) \div n) + 1
            /\ Val(cur).combatant = Flat(Order)[i]
            /\ \E e \in 1..Len(Order) :
                  /\ Order[e].roll = Val(cur).roll
                  /\ \E j \in 1..Len(Order[e].group) :
                        Order[e].group[j] = Val(cur).combatant
            /\ \A e \in 1..Len(Order) :
                  Order[e].roll = Val(cur).roll =>
                     i > Len(Flat(SubSeq(Order, 1, e - 1))) /\ i <= Len(Flat(SubSeq(Order, 1, e)))

\* the (n+1)-th advance: round 2 begins at the first entry's first combatant
C2_Witness ==
    /\ tm # None
    /\ Len(Flat(Order)) >= 4
    /\ Len(Order) >= 2
    /\ Len(Order[1].group) >= 2
    /\ advances = Len(Flat(Order)) + 1
    /\ Val(tm).cur_turn = Some([round |-> 2, roll |-> Order[1].roll,
                                combatant |-> Order[1].group[1]])

\* C3: combatants added with equal rolls are in one entry, in the order in
\* which they were added: no two entries have the same roll, and the members
\* of every entry are in the order of their add_combatant calls.
C3_TiesKeepAddOrder ==
    Started =>
        /\ \A j, k \in 1..Len(Order) : Order[j].roll = Order[k].roll => j = k
        /\ \A e \in 1..Len(Order) :
              \A i, j \in 1..Len(Order[e].group) :
                 i < j => Place(Added, Order[e].group[i]) < Place(Added, Order[e].group[j])

\* two tied combatants with a combatant of another roll added between them
C3_Witness ==
    /\ Started
    /\ \E e, f \in 1..Len(Order) :
          /\ e # f
          /\ Len(Order[e].group) >= 2
          /\ \E x \in 1..Len(Order[f].group) :
                /\ Place(Added, Order[e].group[1]) < Place(Added, Order[f].group[x])
                /\ Place(Added, Order[f].group[x]) < Place(Added, Order[e].group[2])

-----------------------------------------------------------------------------
(* Instantiation of an encounter. *)

\* an encounter has just been loaded
Loaded == status = "running" /\ pc.at = "main" /\ out = "Loaded encounter"

\* the step of LoadPick that loads an encounter
LoadStep == pc.at = "load_pick" /\ out' = "Loaded encounter"

\* the group's monster is the name of a monster file
Known(g) == \E k \in 1..Len(MonsterFiles) : MonsterFiles[k].name = g.monster

\* the monster file of a group that has one
Template(g) == MonsterFiles[CHOOSE k \in 1..Len(MonsterFiles) : MonsterFiles[k].name = g.monster]

\* the group's monster starts with a lowercase character
Generic(g) == g.monster[1] \in LowerChars

\* the number of instances the spec gives a group
Cnt(g) == IF Known(g) THEN g.count ELSE 0

RECURSIVE Total(_)
\* the sum of count over the groups whose template was found
Total(groups) == IF Len(groups) = 0 THEN 0 ELSE Cnt(Head(groups)) + Total(Tail(groups))

\* the registry keys the spec gives a group
ExpectedKeys(g) ==
    IF ~Known(g) THEN {}
    ELSE IF Generic(g) THEN {g.monster \o Str(i) : i \in 1..g.count}
    ELSE {g.monster}

\* the hit points the spec gives the i-th instance of a group
ExpectedHp(g, i) ==
    IF g.max_hp # None /\ Len(g.max_hp[1]) = g.count THEN g.max_hp[1][i]
    ELSE Template(g).base_max_hp

\* the identity of the i-th instance of the gi-th group of a load that was
\* given the identities from base on
IdOf(groups, gi, i, base) == base + Total(SubSeq(groups, 1, gi - 1)) + i - 1

\* in a state Loaded: the groups loaded, and the first identity they were given
Groups == Val(encounter).groups

Base == nextId - Total(Groups)

\* C4 (as claimed): after an encounter is instantiated into an empty registry,
\* the registry holds one entry per instantiated monster: its size is the sum
\* of count over the groups whose template was found.
C4_OneEntryPerInstance ==
    (Loaded /\ \A k \in 1..Len(monsters) : monsters[k].id >= Base) =>
        Len(monsters) = Total(Groups)

\* C5: a load registers, for each group with a found lowercase template and
\* count c, the keys name1 .. namec, each with an instance of that name, the
\* instances being distinct; and it adds no key but those of its groups.
C5_GenericNamesNumbered ==
    [][LoadStep =>
        LET groups == Val(encounter').groups
        IN  /\ \A gi \in 1..Len(groups) :
                  (Known(groups[gi]) /\ Generic(groups[gi])) =>
                     /\ \A i \in 1..groups[gi].count :
                           HasKey(monsters', groups[gi].monster \o Str(i))
                     /\ \A i, j \in 1..groups[gi].count :
                           LET mi == Val(DictGet(monsters', groups[gi].monster \o Str(i)))
                               mj == Val(DictGet(monsters', groups[gi].monster \o Str(j)))
                           IN  /\ mi.name = groups[gi].monster \o Str(i)
                               /\ i # j => mi.id # mj.id
            /\ Keys(monsters') =
                  Keys(monsters) \cup UNION {ExpectedKeys(groups[gi]) : gi \in 1..Len(groups)}
            /\ Len(monsters') = Cardinality(Keys(monsters'))]_vars

\* goblin1 and goblin2 are registered by a group of two goblins
C5_Witness ==
    /\ Loaded
    /\ \E gi \in 1..Len(Groups) : Groups[gi].monster = Goblin /\ Groups[gi].count = 2
    /\ Keys(monsters) \cap {Goblin \o <<"1">>, Goblin \o <<"2">>, Goblin \o <<"3">>, Goblin,
                            Goblin \o <<"0">>}
          = {Goblin \o <<"1">>, Goblin \o <<"2">>}

\* C6: every instance a load has registered has max_hp = cur_hp, and they are
\* max_hp[i] when its group has a max_hp of length count, and the template's
\* intrinsic hit points in every other case.
C6_HitPoints ==
    Loaded =>
        \A k \in 1..Len(monsters) :
           monsters[k].id >= Base =>
              /\ monsters[k].cur_hp = monsters[k].max_hp
              /\ \E gi \in 1..Len(Groups) :
                    \E i \in 1..Cnt(Groups[gi]) :
                       /\ monsters[k].id = IdOf(Groups, gi, i, Base)
                       /\ monsters[k].name \in ExpectedKeys(Groups[gi])
                       /\ monsters[k].max_hp = ExpectedHp(Groups[gi], i)

\* a load whose max_hp of another length was not applied, after a load
\* whose max_hp of the right length was
C6_Witness ==
    /\ Loaded
    /\ Val(encounter).name = "cave"
    /\ Val(DictGet(monsters, Goblin \o <<"1">>)).max_hp = 7
    /\ Val(DictGet(monsters, Goblin \o <<"1">>)).id = nextId - 1
    /\ HasKey(monsters, Orc)
    /\ Val(DictGet(monsters, Orc)).max_hp = 30

\* C7: for a group whose found template has a name that does not start
\* lowercase (and that no later group names again), the registry holds one
\* entry of that name after the load, the last instance of the group, with
\* the last max_hp when the group has a max_hp of length count.
C7_ProperNameKeepsLast ==
    Loaded =>
        \A gi \in 1..Len(Groups) :
           LET g == Groups[gi]
           IN  ( /\ Known(g)
                 /\ ~Generic(g)
                 /\ g.count >= 1
                 /\ \A gj \in (gi + 1)..Len(Groups) : Groups[gj].monster # g.monster ) =>
                   /\ Cardinality({k \in 1..Len(monsters) : monsters[k].name = g.monster}) = 1
                   /\ Val(DictGet(monsters, g.monster)).id = IdOf(Groups, gi, g.count, Base)
                   /\ (g.max_hp # None /\ Len(g.max_hp[1]) = g.count) =>
                         Val(DictGet(monsters, g.monster)).max_hp = g.max_hp[1][g.count]

\* two Orcs were instantiated and the registry holds the second
C7_Witness ==
    /\ Loaded
    /\ \E gi \in 1..Len(Groups) : Groups[gi].monster = Orc /\ Groups[gi].count = 2
    /\ Val(DictGet(monsters, Orc)).max_hp = 30
    /\ Val(DictGet(monsters, Orc)).id = nextId - 1

\* the groups whose template is found
KnownGroups(groups) == SelectSeq(groups, Known)

\* C8: a load gives the registry what the encounter without its groups of
\* unknown monsters gives it, registers nothing under an unknown monster's
\* name, and leaves the session running.
C8_UnknownTemplateSkipped ==
    [][LoadStep =>
        LET groups == Val(encounter').groups
        IN  /\ monsters' = LoadGroups(monsters, KnownGroups(groups), nextId)
            /\ nextId' = nextId + Total(groups)
            /\ status' = "running"
            /\ \A gi \in 1..Len(groups) :
                  ~Known(groups[gi]) =>
                     \A name \in Keys(monsters') \ Keys(monsters) :
                        SubSeq(name, 1, Len(groups[gi].monster)) # groups[gi].monster]_vars

\* an encounter with a group of ghosts was loaded, and its goblins are there
C8_Witness ==
    /\ Loaded
    /\ \E gi \in 1..Len(Groups) : Groups[gi].monster = Ghost /\ ~Known(Groups[gi])
    /\ Keys(monsters) = {Goblin \o <<"1">>, Goblin \o <<"2">>}
    /\ Len(monsters) = Total(Groups) - 1

-----------------------------------------------------------------------------
(* Damage and heal. *)

\* the amounts the operator may give that are numbers, with their values
AmountValue(a) ==
    IF a = <<"2", "0">> THEN 20
    ELSE IF a = <<"-", "3">> THEN 0 - 3
    ELSE 0

Numeric(a) == a \in {<<"2", "0">>, <<"-", "3">>}

\* the combatant of a name in given registries: a party member first
Combatant(cs, ms, name) ==
    IF HasKey(cs, name) THEN cs[IndexOf(cs, name)] ELSE ms[IndexOf(ms, name)]

Exists(name) == HasKey(characters, name) \/ HasKey(monsters, name)

\* C9: damage(name, a) on an existing combatant sets its cur_hp to cur_hp - a
\* and heal(name, a) sets it to cur_hp + a, whatever the sign of a and of the
\* result, and both leave its max_hp and its name as they were.
C9_DamageHealUnclamped ==
    [][\A args \in HpArgs :
          (Len(args) = 2 /\ Numeric(args[2]) /\ Exists(args[1])) =>
             LET was == Combatant(characters, monsters, args[1])
                 now == Combatant(characters', monsters', args[1])
             IN  /\ Damage(args) =>
                    /\ now.cur_hp = was.cur_hp - AmountValue(args[2])
                    /\ now.max_hp = was.max_hp
                    /\ status' = "running"
                 /\ Heal(args) =>
                    /\ now.cur_hp = was.cur_hp + AmountValue(args[2])
                    /\ now.max_hp = was.max_hp
                    /\ status' = "running"]_vars

\* Ann, of 5 hit points, has taken 20 and the party's Orc, of 20, was healed
\* by 20: one below 0, the other above max_hp
C9_Witness ==
    /\ HasKey(characters, Ann)
    /\ Val(DictGet(characters, Ann)).cur_hp = 0 - 15
    /\ Val(DictGet(characters, Orc)).cur_hp = 40
    /\ Val(DictGet(characters, Orc)).max_hp = 20

\* C10 (as claimed): a damage or heal command with an amount that is no number
\* changes no hit points, no registry and no turn state, and the session
\* keeps running.
C10_NonNumericAmountNotFatal ==
    [][\A args \in HpArgs :
          (Len(args) = 2 /\ ~Numeric(args[2]) /\ (Damage(args) \/ Heal(args))) =>
             /\ UNCHANGED <<characters, monsters, encounter, tm>>
             /\ status' = "running"]_vars

-----------------------------------------------------------------------------
(* Refused input. *)

\* the selections that name an offered encounter
ValidPicks == {Str(k) : k \in 1..Len(EncounterFiles)}

\* C11 (as claimed): a selection that is no number of an offered encounter is
\* reported as invalid and changes neither the encounter nor the monster
\* registry, the session keeps running, and only the other selections load.
C11_BadSelectionRefused ==
    [][\A pick \in Picks :
          LoadPick(pick) =>
             IF pick \in ValidPicks
             THEN out' = "Loaded encounter"
             ELSE /\ out' = "Invalid encounter."
                  /\ UNCHANGED <<encounter, monsters>>
                  /\ status' = "running"]_vars

\* C12: a damage or heal command with an amount, whose name is in neither
\* registry, reports an invalid target and changes no registry, no
\* encounter and no turn state; the session waits for the next command.
C12_UnknownTargetRefused ==
    [][\A args \in HpArgs :
          ( /\ Len(args) = 2
            /\ Numeric(args[2])
            /\ ~Exists(args[1])
            /\ (Damage(args) \/ Heal(args)) ) =>
               /\ out' = "Invalid target: "
               /\ UNCHANGED <<characters, monsters, encounter, tm, nextId>>
               /\ status' = "running"
               /\ pc' = AtMain]_vars

\* an invalid target was reported in a session with both registries filled
\* and a combat started
C12_Witness ==
    /\ out = "Invalid target: "
    /\ status = "running"
    /\ Len(monsters) > 0
    /\ Len(characters) > 0
    /\ tm # None
    /\ Val(tm).turns # None

-----------------------------------------------------------------------------
(* The current turn. *)

\* a step that is part of a start command
StartStep == quota'.starts # quota.starts \/ pc.at = "start_roll"

\* a step of NextTurn that yields a turn
AdvanceStep == NextTurn /\ advances' = advances + 1

\* C13: before any start an advance reports that combat has not started and
\* changes nothing; from a start to the first advance cur_turn is empty;
\* after an advance cur_turn is the triple the sequence has yielded, which is
\* what is shown; and cur_turn changes on no step but an advance or a start.
C13_CurTurnFollowsAdvances ==
    [][/\ (tm = None /\ NextTurn) =>
             /\ out' = "Combat hasn't started yet."
             /\ UNCHANGED <<characters, monsters, encounter, tm, pc, status, nextId>>
       /\ (tm' # None /\ advances' = 0) => Val(tm').cur_turn = None
       /\ AdvanceStep =>
             /\ Val(tm').cur_turn =
                   Some(TurnAt(TurnOrder(Val(tm')), Val(Val(tm').turns)))
             /\ Val(tm').turns # Val(tm).turns
             /\ out' = "Round: Initiative: Name: "
             /\ Val(tm').initiative = Val(tm).initiative
       /\ (tm # None /\ tm' # None /\ Val(tm').cur_turn # Val(tm).cur_turn) =>
             AdvanceStep \/ StartStep
       /\ (tm = None /\ tm' # None) => StartStep]_vars

\* the third turn of a combat has been taken and is the current one
C13_Witness ==
    /\ tm # None
    /\ advances = 3
    /\ Val(tm).cur_turn # None
    /\ Val(Val(tm).turns).entry >= 2
    /\ Val(Val(tm).cur_turn).combatant = Flat(Order)[3]

-----------------------------------------------------------------------------
(* Starts. *)

\* C14: after every start the turn order holds exactly the combatants the
\* two registries have at that moment, each once, the turn sequence is at its
\* beginning and no turn is in progress; and the first advance after a start
\* yields round 1 and the first combatant of the highest roll's entry.
C14_StartIsFresh ==
    /\ Started =>
          /\ Len(Flat(Order)) = Len(Added)
          /\ \A k \in 1..Len(Added) : \E j \in 1..Len(Flat(Order)) : Flat(Order)[j] = Added[k]
          /\ Val(tm).cur_turn = None
          /\ Val(tm).turns = Some(GenerateTurns)
          /\ advances = 0
    /\ (tm # None /\ advances = 1) =>
          /\ Val(tm).cur_turn =
                Some([round |-> 1, roll |-> Order[1].roll, combatant |-> Order[1].group[1]])
          /\ \A e \in 2..Len(Order) : RollLess(Order[e].roll, Order[1].roll)

\* the first advance after the second start of a session, five combatants
\* being in the registries
C14_Witness ==
    /\ tm # None
    /\ quota.starts = MaxStarts - 2
    /\ quota.rounds = MaxRound
    /\ advances = 1
    /\ Len(Flat(Order)) = 5
    /\ Val(Val(tm).cur_turn).round = 1

-----------------------------------------------------------------------------
(* Interrupts. *)

\* a (round, roll, combatant) triple of the session's turn order
ValidTurn(turn) ==
    /\ turn.round >= 1
    /\ \E e \in 1..Len(Order) :
          /\ Order[e].roll = turn.roll
          /\ \E j \in 1..Len(Order[e].group) : Order[e].group[j] = turn.combatant

\* C15 (as claimed): an interrupt at a prompt of a command is caught and the
\* session keeps running; and an advance after a start that was interrupted
\* at an initiative prompt does not fail: it reports that combat has not
\* started, or makes a triple of the turn order the current turn.
C15_InterruptLeavesValidState ==
    [][/\ Interrupt => status' = "running" /\ pc' = AtMain
       /\ (tm # None /\ Val(tm).turns = None /\ NextTurn) =>
             /\ status' = "running"
             /\ \/ out' = "Combat hasn't started yet."
                \/ /\ Val(tm').cur_turn # None
                   /\ ValidTurn(Val(Val(tm).cur_turn))']_vars

-----------------------------------------------------------------------------
(* What a load keeps. *)

\* the keys the spec gives the groups of an encounter
LoadKeys(e) == UNION {ExpectedKeys(e.groups[gi]) : gi \in 1..Len(e.groups)}

\* C16: no step removes a key of the monster registry, and a load leaves
\* every monster whose key its groups do not create as it was, current hit
\* points included, and in its place.
C16_RegistryOnlyGrows ==
    [][/\ Keys(monsters) \subseteq Keys(monsters')
       /\ Len(monsters') >= Len(monsters)
       /\ LoadStep =>
             \A k \in 1..Len(monsters) :
                monsters[k].name \notin LoadKeys(Val(encounter')) => monsters'[k] = monsters[k]]_vars

\* the Orc of a first load has lost 20 hit points and has kept them through
\* the load of an encounter without Orcs
C16_Witness ==
    /\ Loaded
    /\ Val(encounter).name = "cave"
    /\ HasKey(monsters, Orc)
    /\ Val(DictGet(monsters, Orc)).cur_hp = 10
    /\ Val(DictGet(monsters, Orc)).max_hp = 30
    /\ Val(DictGet(monsters, Goblin \o <<"1">>)).id = nextId - 1

\* C17: loading an encounter, from its prompt to the end of the handler,
\* leaves the party registry with every field of its members, the turn
\* order and cur_turn as they were.
C17_LoadKeepsPartyAndTurns ==
    [][(pc.at = "load_pick" \/ pc'.at = "load_pick") =>
          /\ characters' = characters
          /\ tm' = tm]_vars

\* an encounter has been loaded with a party present and a turn taken
C17_Witness ==
    /\ Loaded
    /\ Len(characters) > 0
    /\ tm # None
    /\ Val(tm).cur_turn # None
    /\ Len(Val(tm).initiative) > 0

-----------------------------------------------------------------------------
(* The rolls of a start. *)

\* C18: every roll that Start has passed to add_combatant is an integer.
C18_RollsAreIntegers ==
    tm # None =>
       \A k \in 1..Len(Val(tm).initiative) : Val(tm).initiative[k].roll.isint

-----------------------------------------------------------------------------
(* The combatants of a combat. *)

\* the elements of a sequence
Range(q) == {q[k] : k \in 1..Len(q)}

\* C19: a completed start leaves in the turn order exactly the monsters and
\* party members the registries hold at that start; no step that is not part
\* of a start changes the combatants of the turn manager, so that what is
\* loaded afterwards does not enter and nothing leaves; and every advance
\* yields one of these combatants.
C19_CombatantsFixedAtStart ==
    [][/\ Started' => Range(Flat(Order))' = Range(Added)'
       /\ (tm # None /\ ~StartStep) =>
             /\ tm' # None
             /\ Val(tm').initiative = Val(tm).initiative
       /\ AdvanceStep =>
             Val(Val(tm').cur_turn).combatant \in Range(Flat(Order))]_vars

\* a turn has been yielded after an encounter was loaded into a combat that
\* had begun with the party alone
C19_Witness ==
    /\ status = "running"
    /\ out = "Round: Initiative: Name: "
    /\ tm # None
    /\ Val(tm).cur_turn # None
    /\ Len(monsters) > 0
    /\ Len(characters) > 0
    /\ \A k \in 1..Len(monsters) : Ref("monster", monsters[k]) \notin Range(Flat(Order))
    /\ Range(Flat(Order)) = {Ref("character", characters[k]) : k \in 1..Len(characters)}

-----------------------------------------------------------------------------
(* What damage and heal change. *)

\* the registry reg' is reg but for the cur_hp of the entry of the name
OnlyHpOf(reg, name, after) ==
    /\ Len(after) = Len(reg)
    /\ \A k \in 1..Len(reg) :
          IF reg[k].name = name
          THEN after[k] = [reg[k] EXCEPT !.cur_hp = after[k].cur_hp]
          ELSE after[k] = reg[k]

\* C20: a damage or heal that succeeds changes the cur_hp of one combatant,
\* the party member of the name when there is one and the monster of the
\* name otherwise, and nothing else: the other registry, every other entry,
\* every other field, the encounter and the turn manager are as before.
C20_OnlyTargetHpChanges ==
    [][\A args \in HpArgs :
          (/\ Len(args) = 2 /\ Numeric(args[2]) /\ Exists(args[1])
           /\ Damage(args) \/ Heal(args)) =>
             /\ IF HasKey(characters, args[1])
                THEN /\ monsters' = monsters
                     /\ OnlyHpOf(characters, args[1], characters')
                     /\ characters' # characters
                ELSE /\ characters' = characters
                     /\ OnlyHpOf(monsters, args[1], monsters')
                     /\ monsters' # monsters
             /\ encounter' = encounter
             /\ tm' = tm
             /\ nextId' = nextId]_vars

\* the party and the encounter both have an Orc; the party's has been healed
\* by 20 and the encounter's is as it was loaded
C20_Witness ==
    /\ status = "running"
    /\ out = ""
    /\ HasKey(characters, Orc)
    /\ HasKey(monsters, Orc)
    /\ Val(DictGet(characters, Orc)).cur_hp = 40
    /\ Val(DictGet(characters, Ann)).cur_hp = 5
    /\ Val(DictGet(monsters, Orc)).cur_hp = 30
    /\ Val(DictGet(monsters, Orc)).max_hp = 30

====
